---- MODULE Spec2Model ----
(***************************************************************************)
(* Seat apportionment and enrichment of the departmental-election engine.  *)
(*                                                                         *)
(* A Python dict is modelled by the sequence of its values in insertion    *)
(* order (position i = i-th key).  A quotient votos/(j+1) is never stored   *)
(* as a number: two quotients a/b and c/d are compared by a*d against c*b,  *)
(* which is what the float64 comparison gives for every vote count and      *)
(* divisor in range here (distinct quotients differ by at least 1/(b*d)).   *)
(***************************************************************************)
EXTENDS Integers, Sequences, FiniteSets, TLC

\* ------------------------------------------------------------------ bounds
MaxVotos == 4
MaxEdiles == 5

\* ----------------------------------------------------------------- helpers
Min(a, b) == IF a <= b THEN a ELSE b

RECURSIVE SumSeq(_)
SumSeq(s) == IF s = <<>> THEN 0 ELSE Head(s) + SumSeq(Tail(s))

RECURSIVE SumFun(_, _)
SumFun(f, S) ==
    IF S = {} THEN 0
    ELSE LET x == CHOOSE y \in S : TRUE IN f[x] + SumFun(f, S \ {x})

SeqsUpTo(S, n) == UNION { [1..k -> S] : k \in 0..n }

Ceros(n) == [i \in 1..n |-> 0]

\* ------------------------------------------------------- ediles_272.py
VARIABLES pc, votos_por_lema, total_ediles, mayoria_auto,
          rama, ediles_dhondt, ediles_final, distribucion, pendientes

varsEdiles == <<votos_por_lema, total_ediles, mayoria_auto,
                rama, ediles_dhondt, ediles_final, distribucion, pendientes>>

\* np.argmax(votos): the first index holding the maximum.
ArgMax(v) ==
    CHOOSE i \in 1..Len(v) :
        /\ \A k \in 1..Len(v) : v[k] <= v[i]
        /\ \A k \in 1..(i-1) : v[k] < v[i]

\* The matrix cocientes has one row per lema and T columns; the cell
\* <<i, j>> holds v[i]/j.  MayoresEnFila counts the cells of row k that are
\* strictly greater than the cell p, MayIgEnFila those greater or equal:
\* v[k]/l > v[i]/j  iff  l * v[i] < v[k] * j.
MayoresEnFila(v, T, k, p) ==
    IF v[k] = 0 THEN 0
    ELSE IF v[p[1]] = 0 THEN T
    ELSE Min(T, (v[k] * p[2] - 1) \div v[p[1]])

MayIgEnFila(v, T, k, p) ==
    IF v[p[1]] = 0 THEN T
    ELSE Min(T, (v[k] * p[2]) \div v[p[1]])

\* np.argsort(flat)[::-1][:tomar] followed by the count per row (idx // T):
\* the set of seat counts the build can produce.  argsort's default kind is
\* an unstable sort, so the order among equal quotients is the build's choice:
\* the cells strictly above the tomar-th value are always taken, and any of
\* the cells equal to it fill the rest.
SeleccionSinEmpates(v, filas, T, tomar) ==
    LET nMayores(p) == SumFun([k \in filas |-> MayoresEnFila(v, T, k, p)], filas)
    IN { [i \in 1..Len(v) |->
            IF i \in filas
            THEN Cardinality({j \in 1..T : nMayores(<<i, j>>) < tomar})
            ELSE 0] }

SeleccionMayores(v, filas, T, tomar) ==
    LET nMayores(p) == SumFun([k \in filas |-> MayoresEnFila(v, T, k, p)], filas)
        nMayIg(p) == SumFun([k \in filas |-> MayIgEnFila(v, T, k, p)], filas)
        \* per row: cells surely taken, and cells tied at the cut
        seg == [i \in filas |->
                  Cardinality({j \in 1..T : nMayIg(<<i, j>>) <= tomar})]
        fro == [i \in filas |->
                  Cardinality({j \in 1..T : /\ nMayores(<<i, j>>) < tomar
                                             /\ nMayIg(<<i, j>>) > tomar})]
        segs == [i \in 1..Len(v) |-> IF i \in filas THEN seg[i] ELSE 0]
        fros == [i \in 1..Len(v) |-> IF i \in filas THEN fro[i] ELSE 0]
        faltan == Min(tomar, T * Cardinality(filas)) - SumSeq(segs)
        repartos == { c \in [1..Len(v) -> 0..faltan] :
                        /\ \A i \in 1..Len(v) : c[i] <= fros[i]
                        /\ SumSeq(c) = faltan }
    IN { [i \in 1..Len(v) |-> segs[i] + c[i]] : c \in repartos }

\* lines 66-103: the winner is below the automatic majority
RamaMayoriaSinTope(v, T, M, g, d) ==
    { [rama |-> "mayoria", dhondt |-> d,
       ediles |-> [i \in 1..Len(v) |-> IF i = g THEN d[g] ELSE d[i]]] }

RamaMayoriaEntreTodos(v, T, M, g, d) ==
    { [rama |-> "mayoria", dhondt |-> d,
       ediles |-> [i \in 1..Len(v) |-> IF i = g THEN M ELSE r[i]]] :
         r \in SeleccionMayores(v, 1..Len(v), T, T - M) }

\* variant: the seats left by the winner go to the last of the other lemas
RamaMayoriaAlUltimo(v, T, M, g, d) ==
    LET otros == (1..Len(v)) \ {g}
        ultimo == CHOOSE i \in otros : \A k \in otros : k <= i
    IN { [rama |-> "mayoria", dhondt |-> d,
          ediles |-> [i \in 1..Len(v) |->
                         IF i = g THEN M ELSE IF i = ultimo THEN T - M ELSE 0]] }

RamaMayoria(v, T, M, g, d) ==
    LET otros == (1..Len(v)) \ {g}
        ediles_otros_original == SumFun(d, otros)
        ediles_restantes == T - M
    IN IF ediles_otros_original > 0 /\ ediles_restantes > 0
       THEN { [rama |-> "mayoria", dhondt |-> d,
               ediles |-> [i \in 1..Len(v) |-> IF i = g THEN M ELSE r[i]]] :
                 r \in SeleccionMayores(v, otros, T, ediles_restantes) }
       ELSE { [rama |-> "mayoria", dhondt |-> d,
               ediles |-> [i \in 1..Len(v) |-> IF i = g THEN M ELSE 0]] }

\* lines 41-107: np.argmax raises ValueError on an empty array
CuerpoEdiles(v, T, M) ==
    IF Len(v) = 0
    THEN { [rama |-> "error", dhondt |-> <<>>, ediles |-> <<>>] }
    ELSE LET g == ArgMax(v)
         IN UNION { IF d[g] < M
                    THEN RamaMayoria(v, T, M, g, d)
                    ELSE { [rama |-> "dhondt", dhondt |-> d, ediles |-> d] } :
                    d \in SeleccionMayores(v, 1..Len(v), T, T) }

EdilesPorLemaSinGuardas(v, T, M) == CuerpoEdiles(v, T, M)

EdilesPorLemaUnicoConMayoria(v, T, M) ==
    IF Len(v) = 0
    THEN { [rama |-> "vacio", dhondt |-> <<>>, ediles |-> <<>>] }
    ELSE IF Len(v) = 1
    THEN { [rama |-> "unico", dhondt |-> <<>>, ediles |-> <<M>>] }
    ELSE CuerpoEdiles(v, T, M)

\* ediles_por_lema(votos_por_lema, total_ediles, mayoria_auto): every result
\* the call can return, with the branch taken and the pure D'Hondt counts.
EdilesPorLema(v, T, M) ==
    IF Len(v) = 0
    THEN { [rama |-> "vacio", dhondt |-> <<>>, ediles |-> <<>>] }
    ELSE IF Len(v) = 1
    THEN { [rama |-> "unico", dhondt |-> <<>>, ediles |-> <<T>>] }
    ELSE CuerpoEdiles(v, T, M)

LemaMaxSoloVotos(v, dist) == ArgMax(v)

\* one pass of the loop of distribuir_dhondt (lines 129-141): max() returns
\* the first lema with the highest votos/(distribucion+1).
LemaMax(v, dist) ==
    CHOOSE i \in 1..Len(v) :
        /\ \A k \in 1..Len(v) : v[k] * (dist[i] + 1) <= v[i] * (dist[k] + 1)
        /\ \A k \in 1..(i-1) : v[k] * (dist[i] + 1) < v[i] * (dist[k] + 1)

\* Scenario inputs of the specification (votes, seats, threshold)
Escenarios == { <<40, 35, 25>>, <<61, 30, 9>>, <<100>> }

\* four lemas, the three behind the winner with the same votes
EscenariosEmpate == { <<3, 2, 2, 2>> }

InitEdiles ==
    /\ pc = "ediles_por_lema"
    /\ \/ /\ votos_por_lema \in SeqsUpTo(0..MaxVotos, 3)
          /\ total_ediles \in 0..MaxEdiles
          /\ mayoria_auto \in 0..MaxEdiles
       \/ /\ votos_por_lema \in Escenarios
          /\ total_ediles = 5
          /\ mayoria_auto = 3
       \/ /\ votos_por_lema \in EscenariosEmpate
          /\ total_ediles = 3
          /\ mayoria_auto = 2
    /\ rama = "" /\ ediles_dhondt = <<>> /\ ediles_final = <<>>
    /\ distribucion = <<>> /\ pendientes = 0

\* the call ediles_por_lema(votos_por_lema, total_ediles, mayoria_auto)
LlamarEdilesPorLema ==
    /\ pc = "ediles_por_lema"
    /\ \E r \in EdilesPorLema(votos_por_lema, total_ediles, mayoria_auto) :
          /\ rama' = r.rama
          /\ ediles_dhondt' = r.dhondt
          /\ ediles_final' = r.ediles
    /\ pc' = "distribuir_dhondt"
    /\ distribucion' = Ceros(Len(votos_por_lema))
    /\ pendientes' = total_ediles
    /\ UNCHANGED <<votos_por_lema, total_ediles, mayoria_auto>>

\* distribuir_dhondt(votos, distribucion, total_ediles): one loop pass
DistribuirDhondtPaso ==
    /\ pc = "distribuir_dhondt"
    /\ pendientes > 0
    /\ IF Len(votos_por_lema) = 0
       THEN /\ pc' = "error"          \* max() of an empty list
            /\ UNCHANGED <<distribucion, pendientes>>
       ELSE /\ distribucion' =
                 [distribucion EXCEPT ![LemaMax(votos_por_lema, distribucion)] = @ + 1]
            /\ pendientes' = pendientes - 1
            /\ pc' = pc
    /\ UNCHANGED <<votos_por_lema, total_ediles, mayoria_auto,
                   rama, ediles_dhondt, ediles_final>>

\* ------------------------------------------------- claims on ediles_por_lema
EdilesRetornado == pc \in {"distribuir_dhondt", "error"} /\ rama # ""

UmbralValido == 1 <= mayoria_auto /\ mayoria_auto <= total_ediles

\* the most-voted lema, the first one in mapping order among the maxima
EsGanador(g) ==
    /\ g \in 1..Len(votos_por_lema)
    /\ \A k \in 1..Len(votos_por_lema) : votos_por_lema[k] <= votos_por_lema[g]
    /\ \A k \in 1..(g-1) : votos_por_lema[k] < votos_por_lema[g]

\* e gives S seats to the lemas of the set L by highest averages: no lema of L
\* left out of a seat has a larger quotient than one that was served
EsDHondt(e, L, S) ==
    /\ SumFun(e, L) = S
    /\ \A i \in L : \A k \in L :
          e[i] > 0 => votos_por_lema[i] * (e[k] + 1) >= votos_por_lema[k] * e[i]

\* two different lemas never have equal quotients among votos/1..votos/T
SinCocientesEmpatados ==
    \A i \in 1..Len(votos_por_lema) : \A k \in 1..Len(votos_por_lema) :
        \A j \in 1..total_ediles : \A l \in 1..total_ediles :
            i # k => votos_por_lema[i] * l # votos_por_lema[k] * j

\* C1: for a non-empty mapping and 1 <= mayoria_auto <= total_ediles the seats
\* returned by ediles_por_lema sum to exactly total_ediles.
C1_SumaEdiles ==
    (EdilesRetornado /\ Len(votos_por_lema) >= 1 /\ UmbralValido)
        => SumSeq(ediles_final) = total_ediles

C1_Witness ==
    /\ EdilesRetornado /\ UmbralValido /\ rama = "mayoria"
    /\ Len(votos_por_lema) = 3
    /\ \A i \in 1..3 : ediles_final[i] > 0
    /\ SumSeq(ediles_final) = total_ediles

\* C2: the most-voted lema (first among equals) holds at least mayoria_auto
\* seats in the result, whichever branch produced it.
C2_MayoriaGanador ==
    (EdilesRetornado /\ Len(votos_por_lema) >= 1 /\ UmbralValido)
        => \A g \in 1..Len(votos_por_lema) :
              EsGanador(g) => ediles_final[g] >= mayoria_auto

C2_Witness ==
    /\ EdilesRetornado /\ UmbralValido /\ rama = "mayoria"
    /\ Len(votos_por_lema) = 3
    /\ votos_por_lema[2] = votos_por_lema[3] /\ EsGanador(2)
    /\ ediles_dhondt[2] < mayoria_auto
    /\ ediles_final[2] = mayoria_auto

\* C5: when the winner's pure D'Hondt count is below mayoria_auto, the winner
\* gets exactly mayoria_auto and the other total_ediles - mayoria_auto seats
\* are a pure D'Hondt distribution over the non-winning lemas only; votes
\* {A:40, B:35, C:25}, 5 seats, threshold 3 give {A:3, B:1, C:1}.
C5_Override ==
    (EdilesRetornado /\ Len(votos_por_lema) >= 2 /\ UmbralValido)
        => \A g \in 1..Len(votos_por_lema) :
              (EsGanador(g) /\ ediles_dhondt[g] < mayoria_auto) =>
                 /\ ediles_final[g] = mayoria_auto
                 /\ EsDHondt(ediles_final, (1..Len(votos_por_lema)) \ {g},
                             total_ediles - mayoria_auto)
                 /\ (votos_por_lema = <<40, 35, 25>> /\ total_ediles = 5
                        /\ mayoria_auto = 3) => ediles_final = <<3, 1, 1>>

C5_Witness ==
    /\ EdilesRetornado /\ rama = "mayoria"
    /\ votos_por_lema = <<40, 35, 25>>
    /\ ediles_dhondt = <<2, 2, 1>>
    /\ ediles_final = <<3, 1, 1>>

C7_UnicoConVotos ==
    (EdilesRetornado /\ Len(votos_por_lema) >= 1 /\ mayoria_auto <= total_ediles)
        => \A u \in 1..Len(votos_por_lema) :
              ( /\ \A k \in (1..Len(votos_por_lema)) \ {u} : votos_por_lema[k] = 0
                /\ (votos_por_lema[u] > 0 \/ Len(votos_por_lema) = 1) )
              => ediles_final = [i \in 1..Len(votos_por_lema) |->
                                    IF i = u THEN total_ediles ELSE 0]

C7_Witness ==
    /\ EdilesRetornado /\ mayoria_auto <= total_ediles
    /\ votos_por_lema = <<0, 3, 0>> /\ total_ediles = 4
    /\ ediles_final = <<0, 4, 0>>

\* the override moved seats from the other lemas to the winner g and gave
\* none of them more than pure D'Hondt did
SoloQuitaAPerdedores(g) ==
    /\ \A i \in (1..Len(votos_por_lema)) \ {g} : ediles_final[i] <= ediles_dhondt[i]
    /\ ediles_final[g] - ediles_dhondt[g]
          = SumFun([i \in 1..Len(votos_por_lema) |-> ediles_dhondt[i] - ediles_final[i]],
                   (1..Len(votos_por_lema)) \ {g})

\* two different lemas other than g never have equal quotients (two lemas
\* without votes have)
SinEmpatesEntrePerdedores(g) ==
    \A i \in (1..Len(votos_por_lema)) \ {g} : \A k \in (1..Len(votos_por_lema)) \ {g} :
        \A j \in 1..total_ediles : \A l \in 1..total_ediles :
            i # k => votos_por_lema[i] * l # votos_por_lema[k] * j

\* C29 as stated: when the majority override applies, no non-winning lema
\* receives more seats than under unrestricted pure D'Hondt, and the seats
\* added to the winner are taken only from non-winners.
C29_OverrideSoloQuita ==
    (EdilesRetornado /\ rama = "mayoria" /\ UmbralValido)
        => \A g \in 1..Len(votos_por_lema) : EsGanador(g) => SoloQuitaAPerdedores(g)

\* C29 amended: the same, when no two non-winning lemas have equal quotients
\* (which two lemas without votes have): the order among equal quotients is
\* chosen separately in the two sorts of the override.
C29_OverrideSoloQuitaSinEmpates ==
    (EdilesRetornado /\ rama = "mayoria" /\ UmbralValido)
        => \A g \in 1..Len(votos_por_lema) :
              (EsGanador(g) /\ SinEmpatesEntrePerdedores(g)) => SoloQuitaAPerdedores(g)

\* the override gives a seat to a lema with votes that pure D'Hondt left
\* without one: votes 3, 2, 2, 2 for three seats and a majority of two
C29_ConVotos ==
    /\ EdilesRetornado /\ rama = "mayoria"
    /\ votos_por_lema = <<3, 2, 2, 2>>
    /\ ediles_dhondt = <<1, 0, 1, 1>>
    /\ ediles_final = <<2, 1, 0, 0>>

\* an override that takes a seat from one non-winner and none from the other
C29_Witness ==
    /\ EdilesRetornado /\ rama = "mayoria" /\ UmbralValido
    /\ Len(votos_por_lema) = 3 /\ EsGanador(1) /\ SinEmpatesEntrePerdedores(1)
    /\ votos_por_lema[3] > 0
    /\ ediles_final[2] < ediles_dhondt[2]
    /\ ediles_final[3] = ediles_dhondt[3] /\ ediles_final[3] > 0

\* ------------------------------------------------ municipal_concejales.py
VARIABLES lists_data, total_seats, estado_listas,
          Concejales_Asignados, Resto_Dhondt

varsConcejales == <<lists_data, total_seats, estado_listas,
                    Concejales_Asignados, Resto_Dhondt>>

\* position of the cell <<lista, divisor>> in cocientes_global after
\* sort(key=cociente, reverse=True); the sort is stable, so equal quotients
\* keep the order in which lines 40-42 appended them.
CocienteLista(votos, p) == IF votos[p[1]] > 0 THEN <<votos[p[1]], p[2]>> ELSE <<0, 1>>

QMayor(a, b) == a[1] * b[2] > b[1] * a[2]

Antes(p, q) == p[1] < q[1] \/ (p[1] = q[1] /\ p[2] < q[2])

PosicionSinEmpates(votos, k, p) ==
    LET celdas == (1..Len(votos)) \X (1..k)
    IN Cardinality({q \in celdas :
                      QMayor(CocienteLista(votos, q), CocienteLista(votos, p))})

PosicionOrdenada(votos, k, p) ==
    LET celdas == (1..Len(votos)) \X (1..k)
        cp == CocienteLista(votos, p)
    IN Cardinality({q \in celdas :
          \/ QMayor(CocienteLista(votos, q), cp)
          \/ (~QMayor(cp, CocienteLista(votos, q)) /\ Antes(q, p))})

\* lines 60-70: votos / Concejales_Asignados, kept as <<numerator, divisor>>;
\* a zero divisor is Python's ZeroDivisionError.
RestoLista(votos, asignados) ==
    IF asignados > 0
    THEN (IF votos > 0 THEN <<votos, asignados>> ELSE <<0, 1>>)
    ELSE <<0, 1>>

\* _calculate_pure_dhondt(lists_data, total_seats), lists_data given by the
\* 'Votos' of each list
CalculatePureDhondt(votos, k) ==
    IF Len(votos) = 0 \/ k <= 0
    THEN [estado |-> "ok", asignados |-> Ceros(Len(votos)),
          resto |-> [i \in 1..Len(votos) |-> <<0, 1>>]]
    ELSE LET celdas == (1..Len(votos)) \X (1..k)
             \* the loop of lines 48-58 walks the sorted cells, stops at the
             \* first zero quotient or after total_seats seats
             sentadas == {p \in celdas : /\ PosicionOrdenada(votos, k, p) < k
                                         /\ CocienteLista(votos, p)[1] > 0}
             asig == [i \in 1..Len(votos) |->
                         Cardinality({p \in sentadas : p[1] = i})]
             restos == [i \in 1..Len(votos) |-> RestoLista(votos[i], asig[i])]
         IN [estado |-> IF \E i \in 1..Len(votos) : restos[i][2] = 0
                        THEN "error" ELSE "ok",
             asignados |-> asig,
             resto |-> restos]

ConcejalesIdle ==
    /\ lists_data = <<>> /\ total_seats = 0 /\ estado_listas = ""
    /\ Concejales_Asignados = <<>> /\ Resto_Dhondt = <<>>

EdilesIdle ==
    /\ votos_por_lema = <<>> /\ total_ediles = 0 /\ mayoria_auto = 0
    /\ rama = "" /\ ediles_dhondt = <<>> /\ ediles_final = <<>>
    /\ distribucion = <<>> /\ pendientes = 0

InitConcejales ==
    /\ pc = "_calculate_pure_dhondt"
    /\ lists_data \in SeqsUpTo(0..MaxVotos, 3)
    /\ total_seats \in 0..MaxEdiles
    /\ estado_listas = "" /\ Concejales_Asignados = <<>> /\ Resto_Dhondt = <<>>

\* the call _calculate_pure_dhondt(lists_data, total_seats)
LlamarCalculatePureDhondt ==
    /\ pc = "_calculate_pure_dhondt"
    /\ LET r == CalculatePureDhondt(lists_data, total_seats)
       IN /\ estado_listas' = r.estado
          /\ Concejales_Asignados' = r.asignados
          /\ Resto_Dhondt' = r.resto
    /\ pc' = "_calculate_pure_dhondt:retorno"
    /\ UNCHANGED <<lists_data, total_seats>>

\* -------------------------------- quotient + largest remainder (two phases)
VARIABLES votos_partido, total_ediles_partido, listas_votos,
          estado_cociente, ediles_lista

varsCociente == <<votos_partido, total_ediles_partido, listas_votos,
                  estado_cociente, ediles_lista>>

\* int(votos / cociente) with cociente = V / k
EdilesCociente(votos, V, k) == (votos * k) \div V

\* resto = votos - ediles * cociente, scaled by k (the same k for every list)
RestoCociente(votos, V, k) == votos * k - EdilesCociente(votos, V, k) * V

\* position in sorted(..., key=votos, reverse=True): stable
PosPorVotos(l, i) ==
    Cardinality({j \in 1..Len(l) : l[j] > l[i] \/ (l[j] = l[i] /\ j < i)})

\* enrich.py lines 436-461 for one party: listas_temp sorted by votes, whole
\* seats by quotient, then one seat each to the largest remainders
EnrichListasPartido(l, V, k) ==
    IF k <= 0 THEN [estado |-> "ok", ediles |-> Ceros(Len(l))]
    ELSE IF V = 0 /\ Len(l) > 0
    THEN [estado |-> "error", ediles |-> Ceros(Len(l))]   \* votos / 0.0
    ELSE LET n == Len(l)
             base == [i \in 1..n |-> EdilesCociente(l[i], V, k)]
             resto == [i \in 1..n |-> RestoCociente(l[i], V, k)]
             ediles_restantes == k - SumSeq(base)
             pos == [i \in 1..n |->
                       Cardinality({j \in 1..n :
                           \/ resto[j] > resto[i]
                           \/ (resto[j] = resto[i] /\ PosPorVotos(l, j) < PosPorVotos(l, i))})]
         IN [estado |-> "ok",
             ediles |-> [i \in 1..n |->
                            IF ediles_restantes > 0 /\ pos[i] < ediles_restantes
                            THEN base[i] + 1 ELSE base[i]]]

\* loaders/__init__.py lines 535-595 for one party: the party's votes are the
\* sum of its lists' votes; no seats or no votes gives zero to every list
FrontendListasPartido(l, k) ==
    LET V == SumSeq(l)
        n == Len(l)
    IN IF k > 0 /\ V > 0
       THEN LET base == [i \in 1..n |-> EdilesCociente(l[i], V, k)]
                resto == [i \in 1..n |-> RestoCociente(l[i], V, k)]
                ediles_restantes == k - SumSeq(base)
                pos == [i \in 1..n |->
                          Cardinality({j \in 1..n :
                              resto[j] > resto[i] \/ (resto[j] = resto[i] /\ j < i)})]
            IN [estado |-> "ok",
                ediles |-> [i \in 1..n |->
                               IF ediles_restantes > 0 /\ pos[i] < ediles_restantes
                               THEN base[i] + 1 ELSE base[i]]]
       ELSE [estado |-> "ok", ediles |-> Ceros(n)]

CocienteIdle ==
    /\ votos_partido = 0 /\ total_ediles_partido = 0 /\ listas_votos = <<>>
    /\ estado_cociente = "" /\ ediles_lista = <<>>

InitCociente ==
    /\ pc \in {"enrich_listas_data", "_transform_to_frontend_format"}
    /\ listas_votos \in SeqsUpTo(0..MaxVotos, 3)
    /\ total_ediles_partido \in 0..MaxEdiles
    /\ IF pc = "enrich_listas_data"
       THEN votos_partido \in 0..(2 * MaxVotos)      \* partido["Tot"]
       ELSE votos_partido = SumSeq(listas_votos)     \* votos_por_partido_junta
    /\ estado_cociente = "" /\ ediles_lista = <<>>

\* the two-phase block of enrich_listas_data for one party
LlamarEnrichListasData ==
    /\ pc = "enrich_listas_data"
    /\ LET r == EnrichListasPartido(listas_votos, votos_partido, total_ediles_partido)
       IN estado_cociente' = r.estado /\ ediles_lista' = r.ediles
    /\ pc' = "enrich_listas_data:retorno"
    /\ UNCHANGED <<votos_partido, total_ediles_partido, listas_votos>>

\* the two-phase block of _transform_to_frontend_format for one party
LlamarTransformFrontend ==
    /\ pc = "_transform_to_frontend_format"
    /\ LET r == FrontendListasPartido(listas_votos, total_ediles_partido)
       IN estado_cociente' = r.estado /\ ediles_lista' = r.ediles
    /\ pc' = "_transform_to_frontend_format:retorno"
    /\ UNCHANGED <<votos_partido, total_ediles_partido, listas_votos>>

\* ------------------------------------------- claims on the list-level code
PureDhondtRetornado == pc = "_calculate_pure_dhondt:retorno"

CocienteRetornado ==
    pc \in {"enrich_listas_data:retorno", "_transform_to_frontend_format:retorno"}

\* edge inputs named by the claim: no seats, one candidate, no votes at all
BordeEdiles ==
    \/ total_ediles = 0
    \/ Len(votos_por_lema) = 1
    \/ \A i \in 1..Len(votos_por_lema) : votos_por_lema[i] = 0

BordeListas ==
    \/ total_seats = 0
    \/ Len(lists_data) = 1
    \/ \A i \in 1..Len(lists_data) : lists_data[i] = 0

\* C8: apportionment never ends in an error on edge inputs: the empty mapping
\* gives the empty mapping, and zero seats, a single candidate or all-zero
\* votes give a seat assignment, in ediles_por_lema and _calculate_pure_dhondt.
C8_SinErrorEnBordes ==
    /\ (EdilesRetornado /\ Len(votos_por_lema) = 0)
          => (rama = "vacio" /\ ediles_final = <<>>)
    /\ (EdilesRetornado /\ BordeEdiles)
          => /\ rama # "error"
             /\ Len(ediles_final) = Len(votos_por_lema)
             /\ \A i \in 1..Len(ediles_final) : ediles_final[i] \in Nat
    /\ (PureDhondtRetornado /\ BordeListas)
          => /\ estado_listas = "ok"
             /\ Len(Concejales_Asignados) = Len(lists_data)
             /\ \A i \in 1..Len(lists_data) : Concejales_Asignados[i] \in Nat

C8_Witness ==
    \/ /\ EdilesRetornado /\ total_ediles = 0 /\ Len(votos_por_lema) = 2
       /\ mayoria_auto = 3 /\ rama = "mayoria"
    \/ /\ PureDhondtRetornado /\ total_seats = 3
       /\ lists_data = <<0, 0>> /\ Concejales_Asignados = <<0, 0>>

\* C9 as stated: after _calculate_pure_dhondt(lists, k) the Concejales_Asignados
\* of the party's lists sum to k, for any k and any lists (here: at least one
\* list, whatever its votes).
C9_SumaListasOriginal ==
    (PureDhondtRetornado /\ Len(lists_data) >= 1)
        => SumSeq(Concejales_Asignados) = total_seats

\* C9 amended: the Concejales_Asignados sum to k when at least one list has
\* votes; with no list, or no list with votes, no seat is assigned at all.
C9_SumaListas ==
    PureDhondtRetornado =>
        IF \E i \in 1..Len(lists_data) : lists_data[i] > 0
        THEN SumSeq(Concejales_Asignados) = total_seats
        ELSE SumSeq(Concejales_Asignados) = 0

C9_Witness ==
    /\ PureDhondtRetornado /\ total_seats = 4
    /\ lists_data = <<2, 0, 2>>
    /\ Concejales_Asignados = <<2, 0, 2>>

\* C10: in the quotient + largest-remainder apportionment (enrich_listas_data
\* and the frontend transform) the seats of a party's lists sum to
\* total_ediles_partido whenever total_ediles_partido > 0 (here: for a party
\* that has votes and at least one list with votes).
C10_SumaCocienteResto ==
    ( /\ CocienteRetornado /\ total_ediles_partido > 0
      /\ votos_partido > 0
      /\ \E i \in 1..Len(listas_votos) : listas_votos[i] > 0 )
        => (estado_cociente = "ok" /\ SumSeq(ediles_lista) = total_ediles_partido)

\* ------------------------------------------------------- text_normalizer.py
\* A string is a sequence of characters; the characters in use stand for the
\* classes that simplify() treats differently: a lower-case and an upper-case
\* ASCII letter, an accented letter (NFKD: letter + combining mark), a space,
\* a tab, a punctuation sign, and a non-ASCII sign without decomposition.
VARIABLES txt, simplificados

varsTexto == <<txt, simplificados>>

MaxTexto == 3

MaxLlamadas == 2

Caracteres == {"a", "A", "a_agudo", " ", "TAB", ".", "euro"}

Textos == SeqsUpTo(Caracteres, MaxTexto)

RECURSIVE Aplanar(_)
Aplanar(ss) == IF ss = <<>> THEN <<>> ELSE Head(ss) \o Aplanar(Tail(ss))

\* line 68: normalize("NFKD", txt).encode("ascii", "ignore").decode()
NfkdAscii(t) ==
    Aplanar([i \in 1..Len(t) |->
                CASE t[i] = "a_agudo" -> <<"a">>
                  [] t[i] = "euro" -> <<>>
                  [] OTHER -> <<t[i]>>])

\* line 69: t.upper()
Upper(t) == [i \in 1..Len(t) |-> IF t[i] = "a" THEN "A" ELSE t[i]]

EsEspacio(c) == c \in {" ", "TAB"}

RECURSIVE SinEspaciosIniciales(_)
SinEspaciosIniciales(t) ==
    IF t # <<>> /\ EsEspacio(Head(t)) THEN SinEspaciosIniciales(Tail(t)) ELSE t

\* line 69: _RE_WS.sub(" ", t), every run of whitespace becomes one space
RECURSIVE RE_WS_sub(_)
RE_WS_sub(t) ==
    IF t = <<>> THEN <<>>
    ELSE IF EsEspacio(Head(t))
         THEN <<" ">> \o RE_WS_sub(SinEspaciosIniciales(Tail(t)))
         ELSE <<Head(t)>> \o RE_WS_sub(Tail(t))

RECURSIVE SinEspaciosFinales(_)
SinEspaciosFinales(t) ==
    IF t # <<>> /\ EsEspacio(t[Len(t)])
    THEN SinEspaciosFinales(SubSeq(t, 1, Len(t) - 1))
    ELSE t

\* line 69: .strip()
Strip(t) == SinEspaciosFinales(SinEspaciosIniciales(t))

EsAlnumOEspacio(c) == c \in {"A", " "}

\* line 70: _RE_ALNUM.sub("", t), with _RE_ALNUM = [^A-Z0-9 ]
RE_ALNUM_sub(t) == SelectSeq(t, EsAlnumOEspacio)

\* simplify(txt)
Simplify(t) == RE_ALNUM_sub(Strip(RE_WS_sub(Upper(NfkdAscii(t)))))

TextoIdle == txt = <<>> /\ simplificados = <<>>

InitTexto ==
    /\ pc = "simplify"
    /\ txt \in Textos
    /\ simplificados = <<>>

\* one call of simplify: on txt first, then on the value the last call returned
LlamarSimplify ==
    /\ pc = "simplify"
    /\ Len(simplificados) < MaxLlamadas
    /\ simplificados' =
          Append(simplificados,
                 Simplify(IF simplificados = <<>> THEN txt
                          ELSE simplificados[Len(simplificados)]))
    /\ UNCHANGED <<pc, txt>>

\* C11: simplify is idempotent: simplify(simplify(s)) = simplify(s) for every
\* string s, including strings with punctuation between or next to spaces.
C11_SimplifyIdempotente ==
    Len(simplificados) = 2 => simplificados[2] = simplificados[1]

\* ------------------------------------------- models.py, pipeline.py, enrich.py
\* One department record travels through build_dataset: construction of the
\* canonical model, clean, enrich, aggregate.  A party entry is
\* [LN, Tot, Hojas, Listas], Listas being the lists of its sublemas in order
\* (Junta lists for a departmental entry, ListasMunicipio for a municipal
\* one); a municipality is [MD, CP, Eleccion]; a department is
\* [DN, CP, TA, TH, Departamentales, Municipales].  A dict lema -> n is the
\* sequence of its <<lema, n>> items in insertion order.
VARIABLES departamento, dto_enriquecido

varsPipeline == <<departamento, dto_enriquecido>>

MaxTot == 2

TotalEdilesDepto == 31
MayoriaDepto == 16
TotalEdilesMuni == 5
MayoriaMuni == 3

NombresCrudos == {"PN", "pn", "FA", "CA"}

\* str.title() on the party names in use
Title(n) ==
    CASE n \in {"PN", "pn", "Pn"} -> "Pn"
      [] n \in {"FA", "Fa"} -> "Fa"
      [] OTHER -> "Ca"

\* canonical_party(raw): _ALIASES.get(simplify(raw), raw.title()), with the
\* alias file absent (_ALIASES = {})
CanonicalParty(raw) == Title(raw)

\* the CP strings in use: a number, a number with a decimal comma, a number
\* with blanks around it, the empty string, and a text that is not a number
CPCrudos == {"0", "12.5", "12,5", " 12.5 ", "", "n/d"}

\* value.strip().replace(",", ".")
StripComa(v) == IF v \in {"12,5", " 12.5 "} THEN "12.5" ELSE v

\* Decimal(value) succeeds; str(Decimal(value)) is then the same text
EsDecimal(v) == v \in {"0", "12.5"}

\* _normalize_numeric_value(value)
NormalizeNumericValue(v) ==
    LET s == StripComa(v)
    IN IF s = "" THEN "0" ELSE IF EsDecimal(s) THEN s ELSE "0"

\* cleaning.py lines 83-94: the department's CP keeps its stripped text when
\* it is empty or not a number
NormCPDepartamento(v) == StripComa(v)

Claves(d) == {d[i][1] : i \in 1..Len(d)}

Valores(d) == [i \in 1..Len(d) |-> d[i][2]]

\* d[k] = valor, keeping the key's place when it is already there
Asignar(d, k, valor) ==
    IF k \in Claves(d)
    THEN [i \in 1..Len(d) |-> IF d[i][1] = k THEN <<k, valor>> ELSE d[i]]
    ELSE Append(d, <<k, valor>>)

Obtener(d, k, defecto) ==
    IF k \in Claves(d)
    THEN d[CHOOSE i \in 1..Len(d) : d[i][1] = k][2]
    ELSE defecto

\* sumar_votos_por_lema(partidos)
RECURSIVE SumarDesde(_, _)
SumarDesde(partidos, acc) ==
    IF partidos = <<>> THEN acc
    ELSE LET p == Head(partidos)
         IN SumarDesde(Tail(partidos),
                       Asignar(acc, p.LN, Obtener(acc, p.LN, 0) + p.Tot))

SumarVotosPorLema(partidos) == SumarDesde(partidos, <<>>)

\* enrich.py lines 78-82: {p.LN: p.Tot for p in Eleccion if p.Tot > 0}
RECURSIVE VotosDesde(_, _)
VotosDesde(partidos, acc) ==
    IF partidos = <<>> THEN acc
    ELSE LET p == Head(partidos)
         IN VotosDesde(Tail(partidos),
                       IF p.Tot > 0 THEN Asignar(acc, p.LN, p.Tot) ELSE acc)

VotosMunicipio(eleccion) == VotosDesde(eleccion, <<>>)

\* np.argmax read from the end: the last index holding the maximum
ArgMaxUltimo(v) ==
    CHOOSE i \in 1..Len(v) :
        /\ \A k \in 1..Len(v) : v[k] <= v[i]
        /\ \A k \in (i+1)..Len(v) : v[k] < v[i]

GanadorUltimo(votos, defecto) ==
    IF Len(votos) = 0 THEN defecto ELSE votos[ArgMaxUltimo(Valores(votos))][1]

\* max(votos_por_lema.items(), key=lambda x: x[1])[0] if votos_por_lema else defecto
Ganador(votos, defecto) ==
    IF Len(votos) = 0 THEN defecto ELSE votos[ArgMax(Valores(votos))][1]

ComoDict(votos, ediles) == [i \in 1..Len(votos) |-> <<votos[i][1], ediles[i]>>]

\* ediles_por_lema(votos_por_lema): the defaults 31 and 16
EdilesMunicipioPorDefecto(votos) ==
    { ComoDict(votos, r.ediles) :
        r \in EdilesPorLema(Valores(votos), TotalEdilesDepto, MayoriaDepto) }

EdilesDepartamento(votos) ==
    { ComoDict(votos, r.ediles) :
        r \in EdilesPorLema(Valores(votos), TotalEdilesDepto, MayoriaDepto) }

\* ediles_por_lema(votos_por_lema, total_ediles=5, mayoria_auto=3)
EdilesMunicipio(votos) ==
    { ComoDict(votos, r.ediles) :
        r \in EdilesPorLema(Valores(votos), TotalEdilesMuni, MayoriaMuni) }

\* the string "No disponible" where a list name (a sequence of characters)
\* is expected
NoDisponible == <<"No disponible">>

\* enrich.py lines 104-117: the loop over the winning party's municipal lists,
\* carrying lista_ganadora_votos and alcalde_nombre
RECURSIVE AlcaldeDesde(_, _, _)
AlcaldeDesde(listas, votos, nombre) ==
    IF listas = <<>> THEN <<votos, nombre>>
    ELSE LET l == Head(listas)
         IN IF l.Tot > votos
            THEN AlcaldeDesde(Tail(listas), l.Tot,
                              IF l.Dsc # <<>> THEN l.Dsc
                              ELSE IF l.Tot <= 0 THEN NoDisponible ELSE nombre)
            ELSE AlcaldeDesde(Tail(listas), votos, nombre)

\* enrich.py lines 95-121: alcalde_nombre
Alcalde(eleccion, ganador) ==
    IF ganador \in {"", "No disponible"} THEN NoDisponible
    ELSE LET conGanador == {i \in 1..Len(eleccion) : eleccion[i].LN = ganador}
         IN IF conGanador = {} THEN NoDisponible
            ELSE LET i == CHOOSE j \in conGanador : \A k \in conGanador : j <= k
                     r == AlcaldeDesde(eleccion[i].Listas, -1, NoDisponible)
                 IN IF r[1] <= 0 THEN NoDisponible ELSE r[2]

\* variant: the enriched municipality carries only the party entries that
\* were counted (those with votes)
EnriquecerMunicipioSoloConVotos(m) ==
    LET votos == VotosMunicipio(m.Eleccion)
        ganador == Ganador(votos, "No disponible")
    IN { [MD |-> m.MD, CP |-> m.CP,
          Eleccion |-> SelectSeq(m.Eleccion, LAMBDA p : p.Tot > 0),
          ganador |-> ganador,
          ediles |-> e,
          mayor |-> Alcalde(m.Eleccion, ganador)] : e \in EdilesMunicipio(votos) }

\* enriquecer_municipio(municipio): ganador, ediles and mayor
EnriquecerMunicipio(m) ==
    LET votos == VotosMunicipio(m.Eleccion)
        ganador == Ganador(votos, "No disponible")
    IN { [MD |-> m.MD, CP |-> m.CP, Eleccion |-> m.Eleccion,
          ganador |-> ganador,
          ediles |-> e,
          mayor |-> Alcalde(m.Eleccion, ganador)] : e \in EdilesMunicipio(votos) }

\* enriquecer_departamento(departamento)
EnriquecerDepartamento(d) ==
    LET votos == SumarVotosPorLema(d.Departamentales)
        n == Len(d.Municipales)
        munis == { f \in [1..n -> UNION {EnriquecerMunicipio(d.Municipales[i]) : i \in 1..n}] :
                     \A i \in 1..n : f[i] \in EnriquecerMunicipio(d.Municipales[i]) }
    IN { [DN |-> d.DN, CP |-> d.CP, TA |-> d.TA, TH |-> d.TH,
          Departamentales |-> d.Departamentales,
          Municipales |-> ms,
          ganador |-> Ganador(votos, ""),
          ediles |-> e] : e \in EdilesDepartamento(votos), ms \in munis }

\* _norm_hoja: HN through simplify
NormHojas(hojas) ==
    [i \in 1..Len(hojas) |-> [hojas[i] EXCEPT !.HN = Simplify(hojas[i].HN)]]

\* variant: lists whose name simplifies to the empty text are left out
NormListasConNombre(listas) ==
    SelectSeq([i \in 1..Len(listas) |->
                  [listas[i] EXCEPT !.Dsc = Simplify(listas[i].Dsc)]],
              LAMBDA l : l.Dsc # <<>>)

\* _norm_sublema / _norm_lista: Dsc through simplify
NormListas(listas) ==
    [i \in 1..Len(listas) |-> [listas[i] EXCEPT !.Dsc = Simplify(listas[i].Dsc)]]

\* _norm_partido_depto / _norm_partido_muni: LN through canonical_party
NormPartidos(partidos) ==
    [i \in 1..Len(partidos) |->
        [partidos[i] EXCEPT !.LN = CanonicalParty(partidos[i].LN),
                            !.Hojas = NormHojas(partidos[i].Hojas),
                            !.Listas = NormListas(partidos[i].Listas)]]

\* _norm_municipio(m)
NormMunicipio(m) ==
    [m EXCEPT !.MD = Simplify(m.MD),
              !.CP = NormalizeNumericValue(m.CP),
              !.Eleccion = NormPartidos(m.Eleccion)]

\* _norm_departamento(d)
NormDepartamento(d) ==
    [d EXCEPT !.DN = Simplify(d.DN),
              !.Municipales = [i \in 1..Len(d.Municipales) |->
                                 NormMunicipio(d.Municipales[i])],
              !.Departamentales = NormPartidos(d.Departamentales),
              !.CP = NormCPDepartamento(d.CP)]

Partido(ln, tot) == [LN |-> ln, Tot |-> tot, Hojas |-> <<>>, Listas |-> <<>>]

PartidosSimples == { Partido(n, t) : n \in NombresCrudos, t \in 0..MaxTot }

PartidosCrudos == SeqsUpTo(PartidosSimples, 2)

\* entries with votes of two lemas, one of them under two spellings
PartidosConVotos == { Partido(n, t) : n \in {"PN", "pn", "FA"}, t \in 1..MaxTot }

SumaTot(partidos) == SumSeq([i \in 1..Len(partidos) |-> partidos[i].Tot])

MunicipioCrudo(e) == [MD |-> <<"A">>, CP |-> "0", Eleccion |-> e]

DepartamentoCrudo(th, p, m) ==
    [DN |-> <<"A">>, CP |-> "0", TA |-> 0, TH |-> th,
     Departamentales |-> p, Municipales |-> m]

\* names of departments, municipalities, ballot sheets and lists
NombresTexto == { <<"A">>, <<"a", " ", ".">> }

\* municipal lists of a party: votes and name (empty, a name, a name made of
\* a sign only, another name)
ListasCrudas ==
    SeqsUpTo([Tot : 0..MaxTot, Dsc : {<<>>, <<"a">>, <<".">>, <<"A", "A">>}], 2)

\* department records of the input: every party list alone, and every
\* municipal party list under three departmental ones, with the declared
\* total equal to the sum or not; records with the names and CP strings
\* varied; municipalities whose parties carry lists; municipalities and
\* departments with three party entries
DepartamentosCrudos ==
    LET conMunicipio == { <<>>,
                          <<Partido("PN", MaxTot)>>,
                          <<Partido("FA", 1), Partido("pn", 1)>> }
        formas ==
           { DepartamentoCrudo(0, p, <<>>) : p \in PartidosCrudos }
           \cup { DepartamentoCrudo(0, p, <<MunicipioCrudo(e)>>) :
                    p \in conMunicipio, e \in PartidosCrudos }
        conTotales ==
           UNION { { [f EXCEPT !.TH = th] :
                       th \in {SumaTot(f.Departamentales),
                               SumaTot(f.Departamentales) + 1} } : f \in formas }
        conTextos ==
           { [DN |-> n, CP |-> c, TA |-> ta, TH |-> MaxTot,
              Departamentales |->
                 << [LN |-> "pn", Tot |-> MaxTot, Hojas |-> <<[HN |-> n]>>,
                     Listas |-> <<[Tot |-> 1, Dsc |-> n]>>] >>,
              Municipales |-> << [MD |-> n, CP |-> c, Eleccion |-> <<>>] >>] :
                 n \in NombresTexto, c \in CPCrudos, ta \in 0..1 }
        otro == [LN |-> "FA", Tot |-> MaxTot, Hojas |-> <<>>,
                 Listas |-> <<[Tot |-> 1, Dsc |-> <<"a", "a", "a">>]>>]
        conListas ==
           UNION { { DepartamentoCrudo(1, <<Partido("PN", 1)>>,
                        <<MunicipioCrudo(<<[Partido("PN", 1) EXCEPT !.Listas = l]>>)>>),
                     DepartamentoCrudo(1, <<Partido("PN", 1)>>,
                        <<MunicipioCrudo(<<[Partido("PN", 1) EXCEPT !.Listas = l],
                                           otro>>)>>) } : l \in ListasCrudas }
        conTres ==
           UNION { { DepartamentoCrudo(1, <<Partido("PN", 1)>>, <<MunicipioCrudo(e)>>),
                     DepartamentoCrudo(SumaTot(e), e, <<>>) } :
                       e \in [1..3 -> PartidosConVotos] }
    IN conTotales \cup conTextos \cup conListas \cup conTres

PipelineIdle == departamento = <<>> /\ dto_enriquecido = <<>>

InitPipeline ==
    /\ pc = "build_dataset"
    /\ departamento \in DepartamentosCrudos
    /\ dto_enriquecido = <<>>

\* ElectionSummary(departamentos=...): the models declare fields and defaults
\* and no validator, so every record of the right shape is accepted as it is
ConstruirElectionSummary ==
    /\ pc = "build_dataset"
    /\ pc' = "clean"
    /\ UNCHANGED <<departamento, dto_enriquecido>>

\* clean(summary_obj)
Clean ==
    /\ pc = "clean"
    /\ departamento' = NormDepartamento(departamento)
    /\ pc' = "enrich"
    /\ UNCHANGED dto_enriquecido

\* enrich(normalized_summary)
Enrich ==
    /\ pc = "enrich"
    /\ dto_enriquecido' \in EnriquecerDepartamento(departamento)
    /\ pc' = "aggregate"
    /\ UNCHANGED departamento

\* ---------------------------------------------------------------- clean twice
VARIABLES summary, limpios

varsClean == <<summary, limpios>>

CleanIdle == summary = <<>> /\ limpios = <<>>

InitClean ==
    /\ pc = "clean()"
    /\ summary \in DepartamentosCrudos
    /\ limpios = <<>>

\* one call of clean: on the summary first, then on what the last call returned
LlamarClean ==
    /\ pc = "clean()"
    /\ Len(limpios) < MaxLlamadas
    /\ limpios' =
          Append(limpios,
                 NormDepartamento(IF limpios = <<>> THEN summary
                                  ELSE limpios[Len(limpios)]))
    /\ UNCHANGED <<pc, summary>>

\* C12: clean is idempotent: clean(clean(x)) equals clean(x) field by field
\* (names of departments, municipalities, parties, lists and ballot sheets,
\* and the CP strings).
C12_CleanIdempotente ==
    Len(limpios) = 2 => limpios[2] = limpios[1]

\* the same number of entries in the same places and the same votes
MismosVotos(a, b) ==
    /\ Len(a) = Len(b)
    /\ \A i \in 1..Len(b) :
          /\ a[i].Tot = b[i].Tot
          /\ Len(a[i].Hojas) = Len(b[i].Hojas)
          /\ Len(a[i].Listas) = Len(b[i].Listas)
          /\ \A j \in 1..Len(b[i].Listas) : a[i].Listas[j].Tot = b[i].Listas[j].Tot

MismaForma(a, b) ==
    /\ a.TA = b.TA /\ a.TH = b.TH
    /\ MismosVotos(a.Departamentales, b.Departamentales)
    /\ Len(a.Municipales) = Len(b.Municipales)
    /\ \A i \in 1..Len(b.Municipales) :
          MismosVotos(a.Municipales[i].Eleccion, b.Municipales[i].Eleccion)

CPNormalizado(salida, entrada) ==
    salida = IF EsDecimal(StripComa(entrada)) THEN StripComa(entrada) ELSE "0"

\* C23: after clean, the CP of every department and of every municipality is
\* a normalized decimal string: a decimal comma or point and blanks around
\* the number are accepted, and an empty or unparseable text yields "0"
\* instead of failing or being kept as it is.
C23_CPNormalizado ==
    Len(limpios) >= 1 =>
        /\ CPNormalizado(limpios[1].CP, summary.CP)
        /\ \A i \in 1..Len(summary.Municipales) :
              CPNormalizado(limpios[1].Municipales[i].CP, summary.Municipales[i].CP)

\* --------------------------------------------------- claims on the pipeline
Enriquecido == pc = "aggregate"

SumaEdiles(e) == SumSeq(Valores(e))

C4_TotalesValidados ==
    pc \in {"clean", "enrich", "aggregate"}
        => departamento.TH = SumaTot(departamento.Departamentales)

\* the votes of lema L: Tot summed over the entries that carry its name
SumaLema(partidos, L) ==
    SumSeq([i \in 1..Len(partidos) |->
               IF partidos[i].LN = L THEN partidos[i].Tot ELSE 0])

Lemas(partidos) == {partidos[i].LN : i \in 1..Len(partidos)}

PrimerIndice(partidos, L) ==
    CHOOSE i \in 1..Len(partidos) :
        /\ partidos[i].LN = L
        /\ \A j \in 1..(i - 1) : partidos[j].LN # L

\* g is the most-voted lema of the entries, the first one in input order
\* among those with the maximal summed votes
EsMasVotado(partidos, g) ==
    /\ g \in Lemas(partidos)
    /\ \A L \in Lemas(partidos) :
          \/ SumaLema(partidos, L) < SumaLema(partidos, g)
          \/ /\ SumaLema(partidos, L) = SumaLema(partidos, g)
             /\ PrimerIndice(partidos, g) <= PrimerIndice(partidos, L)

\* C13: a department's ganador is the lema whose votes (Tot summed over all
\* Departamentales entries with that name) are maximal, the first such lema
\* in input order when several tie, and it is the lema to which
\* ediles_por_lema gives the majority.
C13_GanadorDepartamento ==
    (Enriquecido /\ Len(dto_enriquecido.Departamentales) >= 1) =>
        /\ EsMasVotado(dto_enriquecido.Departamentales, dto_enriquecido.ganador)
        /\ Obtener(dto_enriquecido.ediles, dto_enriquecido.ganador, 0) >= MayoriaDepto
        /\ \A L \in Lemas(dto_enriquecido.Departamentales) \ {dto_enriquecido.ganador} :
              Obtener(dto_enriquecido.ediles, L, 0) < MayoriaDepto

\* three entries, two of them of the same lema, whose summed votes tie with
\* the other lema's: the first lema in input order is the ganador
C13_Witness ==
    /\ Enriquecido
    /\ Len(dto_enriquecido.Departamentales) = 3
    /\ dto_enriquecido.Departamentales[1].LN = "Fa"
    /\ dto_enriquecido.Departamentales[2].LN = "Pn"
    /\ dto_enriquecido.Departamentales[3].LN = "Pn"
    /\ dto_enriquecido.Departamentales[2].Tot > 0
    /\ dto_enriquecido.Departamentales[3].Tot > 0
    /\ SumaLema(dto_enriquecido.Departamentales, "Fa")
          = SumaLema(dto_enriquecido.Departamentales, "Pn")
    /\ dto_enriquecido.ganador = "Fa"
    /\ Obtener(dto_enriquecido.ediles, "Fa", 0) = MayoriaDepto

\* C14: in a municipality the votes used to pick ganador and to apportion the
\* 5 seats are the sums of Tot over all Eleccion entries that share the lema
\* name, and ganador is the lema with the maximal summed votes.
C14_VotosMunicipioSumados ==
    Enriquecido =>
        \A i \in 1..Len(dto_enriquecido.Municipales) :
           LET m == dto_enriquecido.Municipales[i]
               conVotos == SelectSeq(m.Eleccion, LAMBDA p : p.Tot > 0)
           IN Len(conVotos) >= 1 =>
                 /\ SumaLema(m.Eleccion, m.ganador) > 0
                 /\ \A L \in Lemas(m.Eleccion) :
                       SumaLema(m.Eleccion, L) <= SumaLema(m.Eleccion, m.ganador)
                 /\ m.ediles \in EdilesMunicipio(SumarVotosPorLema(conVotos))

\* the most-voted list of a party's municipal lists, the first one among
\* those with the maximal votes
ListaMasVotada(listas) ==
    CHOOSE i \in 1..Len(listas) :
        /\ \A j \in 1..Len(listas) : listas[j].Tot <= listas[i].Tot
        /\ \A j \in 1..(i - 1) : listas[j].Tot < listas[i].Tot

\* C15: a municipality's mayor is the name carried by the single most-voted
\* list among the winning lema's municipal lists, and it is "No disponible"
\* when there is no winner, no list with positive votes, or that list has no
\* name; it is never the name of a list with fewer votes than another list
\* of the winning lema.
C15_AlcaldeListaMasVotada ==
    Enriquecido =>
        \A i \in 1..Len(dto_enriquecido.Municipales) :
           LET m == dto_enriquecido.Municipales[i]
               listas == IF m.ganador \in Lemas(m.Eleccion)
                         THEN m.Eleccion[PrimerIndice(m.Eleccion, m.ganador)].Listas
                         ELSE <<>>
           IN IF \E j \in 1..Len(listas) : listas[j].Tot > 0
              THEN LET top == listas[ListaMasVotada(listas)]
                   IN m.mayor = IF top.Dsc = <<>> THEN NoDisponible ELSE top.Dsc
              ELSE m.mayor = NoDisponible

\* the base fields of an enriched department and of its municipalities are
\* those of the department it was made from
BaseIgual(e, d) ==
    /\ e.DN = d.DN /\ e.CP = d.CP /\ e.TA = d.TA /\ e.TH = d.TH
    /\ e.Departamentales = d.Departamentales
    /\ Len(e.Municipales) = Len(d.Municipales)
    /\ \A i \in 1..Len(d.Municipales) :
          /\ e.Municipales[i].MD = d.Municipales[i].MD
          /\ e.Municipales[i].CP = d.Municipales[i].CP
          /\ e.Municipales[i].Eleccion = d.Municipales[i].Eleccion

\* C21: enrich does not modify the summary it is given, and in its output
\* every base field of every department and municipality equals the input's;
\* what it adds is ganador and ediles (and mayor for a municipality).
C21_EnrichSoloAgrega ==
    [][pc = "enrich" =>
         /\ departamento' = departamento
         /\ BaseIgual(dto_enriquecido', departamento)
         /\ DOMAIN dto_enriquecido' = DOMAIN departamento \cup {"ganador", "ediles"}
         /\ \A i \in 1..Len(departamento.Municipales) :
               DOMAIN dto_enriquecido'.Municipales[i] =
                  DOMAIN departamento.Municipales[i] \cup {"ganador", "ediles", "mayor"}]_<<pc, varsPipeline>>

\* an enriched department with a municipality that has a party entry without
\* votes beside one with votes
C21_Witness ==
    /\ Enriquecido
    /\ Len(dto_enriquecido.Municipales) = 1
    /\ \E i, j \in 1..Len(dto_enriquecido.Municipales[1].Eleccion) :
          /\ dto_enriquecido.Municipales[1].Eleccion[i].Tot = 0
          /\ dto_enriquecido.Municipales[1].Eleccion[j].Tot > 0
    /\ dto_enriquecido.Municipales[1].ganador # "No disponible"

\* ------------------------------------------------------ enrich.py, aggregate
\* aggregate(summary) on an enriched summary: a sequence of enriched
\* departments.  A percentage is kept in hundredths (12.34 is 1234).
VARIABLES enriquecidos, stats

varsAggregate == <<enriquecidos, stats>>

\* d[k] = d.get(k, 0) + n for every <<k, n>> of pares, in order
RECURSIVE Acumular(_, _)
Acumular(pares, acc) ==
    IF pares = <<>> THEN acc
    ELSE Acumular(Tail(pares),
                  Asignar(acc, Head(pares)[1],
                          Obtener(acc, Head(pares)[1], 0) + Head(pares)[2]))

\* every <<k, n>> of pares overwrites d[k]
RECURSIVE Sobrescribir(_, _)
Sobrescribir(pares, acc) ==
    IF pares = <<>> THEN acc
    ELSE Sobrescribir(Tail(pares), Asignar(acc, Head(pares)[1], Head(pares)[2]))

VotosNacionalesUltimo(deptos) ==
    Sobrescribir(Aplanar([i \in 1..Len(deptos) |->
                    [j \in 1..Len(deptos[i].Departamentales) |->
                        <<deptos[i].Departamentales[j].LN,
                          deptos[i].Departamentales[j].Tot>>]]), <<>>)

\* lines 210-220: votos_por_lema
VotosNacionales(deptos) ==
    Acumular(Aplanar([i \in 1..Len(deptos) |->
                [j \in 1..Len(deptos[i].Departamentales) |->
                    <<deptos[i].Departamentales[j].LN,
                      deptos[i].Departamentales[j].Tot>>]]), <<>>)

TotalConBlancos(deptos) ==
    SumSeq([i \in 1..Len(deptos) |->
               SumaTot(deptos[i].Departamentales) + deptos[i].TA])

\* lines 207-223: total_votos_validos
TotalVotosValidos(deptos) ==
    SumSeq([i \in 1..Len(deptos) |-> SumaTot(deptos[i].Departamentales)])

\* lines 226-228: departamentos_por_lema
DepartamentosPorLema(deptos) ==
    Acumular(Aplanar([i \in 1..Len(deptos) |->
                IF deptos[i].ganador # "" THEN << <<deptos[i].ganador, 1>> >>
                ELSE <<>>]), <<>>)

\* variant: a department's seats of a lema replace the ones counted so far
EdilesNacionalesUltimo(deptos) ==
    Sobrescribir(Aplanar([i \in 1..Len(deptos) |-> deptos[i].ediles]), <<>>)

\* lines 231-235: ediles_por_lema
EdilesNacionales(deptos) ==
    Acumular(Aplanar([i \in 1..Len(deptos) |-> deptos[i].ediles]), <<>>)

\* lines 238-243: municipios_por_lema
MunicipiosPorLema(deptos) ==
    Acumular(Aplanar([i \in 1..Len(deptos) |->
                Aplanar([j \in 1..Len(deptos[i].Municipales) |->
                   IF deptos[i].Municipales[j].ganador # ""
                   THEN << <<deptos[i].Municipales[j].ganador, 1>> >>
                   ELSE <<>>])]), <<>>)

\* round(n / d * 100, 2) in hundredths, n being votes and d the total:
\* n * 10000 / d rounded to the nearest integer, a tie going to the even one
\* (Python's round agrees with this for every total below 160)
Redondear(n, d) ==
    LET q == (n * 10000) \div d
        r == (n * 10000) % d
    IN IF 2 * r < d THEN q
       ELSE IF 2 * r > d THEN q + 1
       ELSE IF q % 2 = 0 THEN q ELSE q + 1

\* lines 247-250: porcentajes_nacionales
PorcentajesNacionales(votos, total) ==
    IF total > 0
    THEN [i \in 1..Len(votos) |-> <<votos[i][1], Redondear(votos[i][2], total)>>]
    ELSE <<>>

\* aggregate(summary)
Aggregate(deptos) ==
    LET votos == VotosNacionales(deptos)
        total == TotalVotosValidos(deptos)
    IN [votos_por_lema |-> votos,
        porcentajes_nacionales |-> PorcentajesNacionales(votos, total),
        total_votos |-> total,
        departamentos_por_lema |-> DepartamentosPorLema(deptos),
        municipios_por_lema |-> MunicipiosPorLema(deptos),
        ediles_por_lema |-> EdilesNacionales(deptos),
        lema_mas_votado |-> Ganador(votos, "None")]

\* the departments handed to enrich and aggregate: cleaned records with the
\* declared total equal to the sum, with and without blank votes; every
\* party list of at most one entry, four lists of two entries (a clear
\* winner either way, a tie, a repeated lema), one with a municipality, and
\* one with a municipality whose only party has no votes
DepartamentosAgregables ==
    LET listas ==
           SeqsUpTo(PartidosSimples, 1)
           \cup { <<Partido("PN", MaxTot), Partido("FA", 1)>>,
                  <<Partido("FA", MaxTot), Partido("pn", 1)>>,
                  <<Partido("PN", 1), Partido("FA", 1)>>,
                  <<Partido("PN", 1), Partido("pn", 1)>> }
        crudos ==
           { DepartamentoCrudo(SumaTot(p), p, <<>>) : p \in listas }
           \cup { DepartamentoCrudo(MaxTot, <<Partido("CA", MaxTot)>>,
                                    <<MunicipioCrudo(<<Partido("FA", 1)>>)>>),
                  DepartamentoCrudo(1, <<Partido("FA", 1)>>,
                                    <<MunicipioCrudo(<<Partido("PN", 0)>>)>>) }
    IN { [NormDepartamento(d) EXCEPT !.TA = ta] : d \in crudos, ta \in 0..1 }

DepartamentosEnriquecidos ==
    UNION { EnriquecerDepartamento(d) : d \in DepartamentosAgregables }

MaxDeptos == 2

AggregateIdle == enriquecidos = <<>> /\ stats = <<>>

InitAggregate ==
    /\ pc = "aggregate()"
    /\ enriquecidos \in SeqsUpTo(DepartamentosEnriquecidos, MaxDeptos)
    /\ stats = <<>>

\* aggregate(summary) called on an enriched summary
LlamarAggregate ==
    /\ pc = "aggregate()"
    /\ stats' = Aggregate(enriquecidos)
    /\ pc' = "aggregate():retorno"
    /\ UNCHANGED enriquecidos

\* pipeline.py line 112: stats = aggregate(enriched_summary)
AggregatePipeline ==
    /\ pc = "aggregate"
    /\ stats' = Aggregate(<<dto_enriquecido>>)
    /\ pc' = "retorno"
    /\ UNCHANGED <<departamento, dto_enriquecido, enriquecidos>>

Agregado == pc = "aggregate():retorno"

SinBlancos(deptos) == [i \in 1..Len(deptos) |-> [deptos[i] EXCEPT !.TA = 0]]

Abs(n) == IF n < 0 THEN -n ELSE n

\* C16: when the national total of party votes is positive, the percentages
\* over all lemas sum to 100 within the rounding tolerance (0.005 per lema),
\* and they are computed from party Tot values only: the blank-vote counters
\* change neither total_votos nor any percentage.
C16_PorcentajesCierran ==
    (Agregado /\ stats.total_votos > 0) =>
        /\ 2 * Abs(SumSeq(Valores(stats.porcentajes_nacionales)) - 10000)
              <= Len(stats.porcentajes_nacionales)
        /\ Claves(stats.porcentajes_nacionales) = Claves(stats.votos_por_lema)
        /\ stats.total_votos = Aggregate(SinBlancos(enriquecidos)).total_votos
        /\ stats.porcentajes_nacionales
              = Aggregate(SinBlancos(enriquecidos)).porcentajes_nacionales

\* two departments with blank votes and three lemas with a third of the
\* votes each: the rounded percentages add up to 99.99
C16_Witness ==
    /\ Agregado
    /\ Len(enriquecidos) = 2
    /\ enriquecidos[1].TA = 1
    /\ stats.total_votos = 3
    /\ Len(stats.porcentajes_nacionales) = 3
    /\ SumSeq(Valores(stats.porcentajes_nacionales)) = 9999

\* C17: when the national total of party votes is zero, aggregate does not
\* fail and reports a percentage of zero for every lema of votos_por_lema.
C17_PorcentajesCeroSinVotos ==
    (Agregado /\ stats.total_votos = 0) =>
        \A L \in Claves(stats.votos_por_lema) :
            Obtener(stats.porcentajes_nacionales, L, -1) = 0

\* C18: aggregate returns votos_por_lema[L] equal to the sum over the
\* departments of Tot of the entries of lema L, ediles_por_lema[L] equal to
\* the sum of the departments' ediles[L], departamentos_por_lema[L] equal to
\* the number of departments whose ganador is L, and lema_mas_votado a lema
\* with maximal votos_por_lema (None without party entries).
C18_SumasNacionales ==
    Agregado =>
        LET n == Len(enriquecidos)
            lemas == UNION {Lemas(enriquecidos[i].Departamentales) : i \in 1..n}
            ganadores == {enriquecidos[i].ganador : i \in 1..n} \ {""}
        IN /\ Claves(stats.votos_por_lema) = lemas
           /\ \A L \in lemas :
                 Obtener(stats.votos_por_lema, L, -1)
                    = SumSeq([i \in 1..n |->
                                SumaLema(enriquecidos[i].Departamentales, L)])
           /\ Claves(stats.ediles_por_lema)
                 = UNION {Claves(enriquecidos[i].ediles) : i \in 1..n}
           /\ \A L \in Claves(stats.ediles_por_lema) :
                 Obtener(stats.ediles_por_lema, L, -1)
                    = SumSeq([i \in 1..n |-> Obtener(enriquecidos[i].ediles, L, 0)])
           /\ Claves(stats.departamentos_por_lema) = ganadores
           /\ \A L \in ganadores :
                 Obtener(stats.departamentos_por_lema, L, -1)
                    = Cardinality({i \in 1..n : enriquecidos[i].ganador = L})
           /\ IF lemas = {} THEN stats.lema_mas_votado = "None"
              ELSE /\ stats.lema_mas_votado \in lemas
                   /\ \A L \in lemas :
                         Obtener(stats.votos_por_lema, L, 0)
                            <= Obtener(stats.votos_por_lema, stats.lema_mas_votado, 0)

\* two departments won by different lemas, both lemas present in both
C18_Witness ==
    /\ Agregado
    /\ Len(enriquecidos) = 2
    /\ enriquecidos[1].ganador = "Pn"
    /\ enriquecidos[2].ganador = "Fa"
    /\ Len(enriquecidos[1].Departamentales) = 2
    /\ Len(enriquecidos[2].Departamentales) = 2
    /\ Obtener(stats.votos_por_lema, "Pn", 0) = 3
    /\ Obtener(stats.votos_por_lema, "Fa", 0) = 3
    /\ Obtener(stats.ediles_por_lema, "Pn", 0) + Obtener(stats.ediles_por_lema, "Fa", 0)
          = 2 * TotalEdilesDepto
    /\ Obtener(stats.departamentos_por_lema, "Pn", 0) = 1
    /\ stats.lema_mas_votado = "Pn"

\* some party of the unit has votes
ConVotos(partidos) == \E i \in 1..Len(partidos) : partidos[i].Tot > 0

\* C30: in the statistics of aggregate every key of departamentos_por_lema
\* and of municipios_por_lema is a lema that received votes in a unit it is
\* credited with; a department or municipality in which no party has votes
\* adds to no win count, so the win counts sum to the number of units that
\* have a most-voted lema.
C30_VictoriasConVotos ==
    Agregado =>
        LET n == Len(enriquecidos)
            munis == UNION { {<<i, j>> : j \in 1..Len(enriquecidos[i].Municipales)} :
                             i \in 1..n }
            Muni(u) == enriquecidos[u[1]].Municipales[u[2]]
        IN /\ \A L \in Claves(stats.departamentos_por_lema) :
                 \E i \in 1..n : /\ enriquecidos[i].ganador = L
                                  /\ SumaLema(enriquecidos[i].Departamentales, L) > 0
           /\ SumSeq(Valores(stats.departamentos_por_lema))
                 = Cardinality({i \in 1..n : ConVotos(enriquecidos[i].Departamentales)})
           /\ \A L \in Claves(stats.municipios_por_lema) :
                 \E u \in munis : /\ Muni(u).ganador = L
                                   /\ SumaLema(Muni(u).Eleccion, L) > 0
           /\ SumSeq(Valores(stats.municipios_por_lema))
                 = Cardinality({u \in munis : ConVotos(Muni(u).Eleccion)})

\* a municipality without votes is counted as won by "No disponible"
C30_MunicipioSinVotos ==
    /\ Agregado
    /\ Len(enriquecidos) = 1
    /\ ConVotos(enriquecidos[1].Departamentales)
    /\ Len(enriquecidos[1].Municipales) = 1
    /\ ~ConVotos(enriquecidos[1].Municipales[1].Eleccion)
    /\ stats.municipios_por_lema = << <<"No disponible", 1>> >>

\* ------------------------------------------- enrich.py: units in any order
\* enrich(summary) and aggregate(summary) with the order of the units left
\* open: each iteration of enrich's comprehension (enrich.py 178-180) is one
\* step taken for whichever department is still to be enriched, and
\* aggregate runs on the enriched departments in any order.
VARIABLES unidades, por_enriquecer, salida, stats_permutado

varsParalelo == <<unidades, por_enriquecer, salida, stats_permutado>>

\* cleaned departments to enrich: a clear winner either way, a tie, one with
\* a municipality, one whose only party has no votes, one without parties
DepartamentosParalelos ==
    { NormDepartamento(d) : d \in
        { DepartamentoCrudo(MaxTot + 1, <<Partido("PN", MaxTot), Partido("FA", 1)>>, <<>>),
          DepartamentoCrudo(MaxTot + 1, <<Partido("FA", MaxTot), Partido("pn", 1)>>, <<>>),
          DepartamentoCrudo(2, <<Partido("PN", 1), Partido("FA", 1)>>, <<>>),
          DepartamentoCrudo(MaxTot, <<Partido("CA", MaxTot)>>,
                            <<MunicipioCrudo(<<Partido("FA", 1)>>)>>),
          DepartamentoCrudo(0, <<Partido("PN", 0)>>, <<>>),
          DepartamentoCrudo(0, <<>>, <<>>) } }

Permutaciones(n) ==
    { f \in [1..n -> 1..n] : \A i, j \in 1..n : f[i] = f[j] => i = j }

ParaleloIdle ==
    /\ unidades = <<>> /\ por_enriquecer = {} /\ salida = <<>>
    /\ stats_permutado = <<>>

InitParalelo ==
    /\ pc = "enrich()"
    /\ unidades \in SeqsUpTo(DepartamentosParalelos, MaxDeptos)
    /\ por_enriquecer = 1..Len(unidades)
    /\ salida = [i \in 1..Len(unidades) |-> <<>>]
    /\ stats_permutado = <<>>

\* enriquecer_departamento(d) for one department of the summary
EnriquecerUnidad ==
    /\ pc = "enrich()"
    /\ \E i \in por_enriquecer :
          /\ \E e \in EnriquecerDepartamento(unidades[i]) :
                salida' = [salida EXCEPT ![i] = e]
          /\ por_enriquecer' = por_enriquecer \ {i}
    /\ UNCHANGED <<pc, unidades, stats_permutado>>

\* aggregate(summary) on the enriched departments taken in some order
AggregatePermutado ==
    /\ pc = "enrich()"
    /\ por_enriquecer = {}
    /\ \E f \in Permutaciones(Len(salida)) :
          stats_permutado' = Aggregate([i \in 1..Len(salida) |-> salida[f[i]]])
    /\ pc' = "enrich():retorno"
    /\ UNCHANGED <<unidades, por_enriquecer, salida>>

\* a dict as a mapping: its items without their order
Items(d) == {d[i] : i \in 1..Len(d)}

\* C24: the enrichment of one unit reads and writes no state of another
\* unit: whatever the order in which the units are enriched, each unit's
\* result is a result of enriching that unit alone, with the same ganador
\* (and mayor); and aggregate's votes per lema, seats per lema and win counts
\* are the same mappings for every permutation of the departments.
C24_OrdenIndiferente ==
    /\ \A i \in 1..Len(unidades) :
          salida[i] # <<>> =>
             /\ salida[i] \in EnriquecerDepartamento(unidades[i])
             /\ \A e \in EnriquecerDepartamento(unidades[i]) :
                   /\ e.ganador = salida[i].ganador
                   /\ \A j \in 1..Len(e.Municipales) :
                         /\ e.Municipales[j].ganador = salida[i].Municipales[j].ganador
                         /\ e.Municipales[j].mayor = salida[i].Municipales[j].mayor
    /\ pc = "enrich():retorno" =>
          LET ref == Aggregate(salida)
          IN /\ Items(stats_permutado.votos_por_lema) = Items(ref.votos_por_lema)
             /\ Items(stats_permutado.ediles_por_lema) = Items(ref.ediles_por_lema)
             /\ Items(stats_permutado.departamentos_por_lema)
                   = Items(ref.departamentos_por_lema)
             /\ Items(stats_permutado.municipios_por_lema)
                   = Items(ref.municipios_por_lema)
             /\ stats_permutado.total_votos = ref.total_votos

\* two departments won by different lemas, aggregated in the other order:
\* the dicts list the lemas in another order
C24_Witness ==
    /\ pc = "enrich():retorno"
    /\ Len(salida) = 2
    /\ salida[1].ganador # salida[2].ganador
    /\ salida[1].ganador # "" /\ salida[2].ganador # ""
    /\ stats_permutado.votos_por_lema # Aggregate(salida).votos_por_lema
    /\ stats_permutado.ediles_por_lema # Aggregate(salida).ediles_por_lema

\* ------------------------------- loaders/__init__.py, v2020.py, pipeline.py
\* build_dataset(path=...) and build_dataset(raw_data=...).  The file is a
\* JSON array of department records (or not JSON at all: zero bytes); a raw
\* record is [claves, malformado, depto]: the keys it carries, whether
\* Departamento(**record) raises, and the department it describes.
VARIABLES via, legible, data, idx, cargados, error, loaded_year, year

varsCarga == <<via, legible, data, idx, cargados, error, loaded_year, year>>

\* v2020.load: ElectionSummary(year=2020, ...)
Year2020 == 2020

\* models.py: year: int = Field(0, ...)
YearPorDefecto == 0

\* _SIGNATURES["v2020"]
SIGNATURES == {"DN", "TA", "TO", "TH", "Departamentales", "Municipales"}

ClavesCrudas == { SIGNATURES, SIGNATURES \ {"TH"}, {} }

DeptosArchivo ==
    { DepartamentoCrudo(1, <<Partido("PN", 1)>>, <<>>),
      DepartamentoCrudo(1, <<Partido("FA", 1)>>, <<>>) }

RegistrosCrudos ==
    [claves : ClavesCrudas, malformado : BOOLEAN, depto : DeptosArchivo]

FirmaEnAlguno(d) == \E i \in 1..Len(d) : SIGNATURES \subseteq d[i].claves

\* lines 57-61: _SIGNATURES["v2020"].issubset(set(data[0].keys()))
FirmaReconocida(d) == SIGNATURES \subseteq d[1].claves

CargaIdle ==
    /\ via = "" /\ legible = TRUE /\ data = <<>> /\ idx = 0
    /\ cargados = <<>> /\ error = ""
    /\ loaded_year = YearPorDefecto /\ year = YearPorDefecto

InitCarga ==
    /\ pc = "build_dataset()"
    /\ via \in {"path", "raw_data"}
    /\ legible \in BOOLEAN
    /\ data \in SeqsUpTo(RegistrosCrudos, MaxDeptos)
    /\ ~legible => (via = "path" /\ data = <<>>)
    /\ idx = 0
    /\ cargados = <<>>
    /\ error = ""
    /\ loaded_year = YearPorDefecto
    /\ year = YearPorDefecto

\* pipeline.py lines 68-71 and detect_load: json.load, the empty check and
\* the signature check on the first record; the exception leaves
\* build_dataset as it is
DetectLoad ==
    /\ pc = "build_dataset()"
    /\ via = "path"
    /\ IF ~legible
       THEN pc' = "error" /\ error' = "detect_load: JSONDecodeError" /\ idx' = idx
       ELSE IF data = <<>>
       THEN pc' = "error" /\ error' = "detect_load: RuntimeError" /\ idx' = idx
       ELSE IF FirmaReconocida(data)
       THEN pc' = "v2020.load" /\ error' = error /\ idx' = 1
       ELSE pc' = "error" /\ error' = "detect_load: RuntimeError" /\ idx' = idx
    /\ UNCHANGED <<via, legible, data, cargados, loaded_year, year, enriquecidos, stats>>

\* v2020.load lines 101-120: one pass of the loop; a record that raises is
\* logged and skipped
LoadDepartamento ==
    /\ pc = "v2020.load"
    /\ idx <= Len(data)
    /\ cargados' = IF data[idx].malformado THEN cargados
                   ELSE Append(cargados, data[idx].depto)
    /\ idx' = idx + 1
    /\ UNCHANGED <<pc, via, legible, data, error, loaded_year, year, enriquecidos, stats>>

\* v2020.load line 129 and pipeline.py lines 77-87: the ElectionSummary that
\* load returns carries the year 2020 and is truthy whatever it holds;
\* summary_obj is a new ElectionSummary made of its departamentos alone, so
\* its year is the field's default
LoadRetorno ==
    /\ pc = "v2020.load"
    /\ idx > Len(data)
    /\ loaded_year' = Year2020
    /\ year' = YearPorDefecto
    /\ pc' = "clean"
    /\ UNCHANGED <<via, legible, data, idx, cargados, error, enriquecidos, stats>>

\* pipeline.py lines 64-67, 77-79 and 89-99: an empty list is refused, and
\* ElectionSummary(departamentos=raw_data) validates every record
UsarRawData ==
    /\ pc = "build_dataset()"
    /\ via = "raw_data"
    /\ IF data = <<>> \/ \E i \in 1..Len(data) : data[i].malformado
       THEN pc' = "error" /\ error' = "build_dataset: ValueError"
            /\ cargados' = cargados
       ELSE pc' = "clean" /\ error' = error
            /\ cargados' = [i \in 1..Len(data) |-> data[i].depto]
    /\ UNCHANGED <<via, legible, data, idx, loaded_year, year, enriquecidos, stats>>

\* pipeline.py lines 101-115: clean, enrich and aggregate on the departments
\* that were loaded, and the return of (enriched_summary, stats); clean
\* copies the summary with its year and enrich passes year=summary.year
LimpiarEnriquecerAgregar ==
    /\ pc = "clean"
    /\ \E e \in [1..Len(cargados) ->
                    UNION {EnriquecerDepartamento(NormDepartamento(d)) : d \in DeptosArchivo}] :
          /\ \A i \in 1..Len(cargados) :
                e[i] \in EnriquecerDepartamento(NormDepartamento(cargados[i]))
          /\ enriquecidos' = e
          /\ stats' = Aggregate(e)
    /\ pc' = "build_dataset():retorno"
    /\ UNCHANGED <<via, legible, data, idx, cargados, error, loaded_year, year>>

Retornado == pc = "build_dataset():retorno"

\* C27: the year of the summary produced by the source adapter (2020 from
\* v2020.load) is the year of the enriched summary that build_dataset
\* returns; no stage resets it.
C27_YearConservado ==
    (Retornado /\ via = "path") => year = loaded_year

\* C19: when any department record of the input is malformed, the entry
\* point ends in an error; it never returns an enriched summary and
\* statistics computed from only the departments that could be loaded.
C19_SinResultadoParcial ==
    Retornado => \A i \in 1..Len(data) : ~data[i].malformado

ArchivoSinFirma ==
    via = "path" /\ (~legible \/ data = <<>> \/ ~(SIGNATURES \subseteq data[1].claves))

\* C20: loading a file whose first record lacks a key of the known signature,
\* or an empty file, ends in an error raised by detect_load and propagated by
\* build_dataset(path=...); no adapter is run and no result is returned.
C20_FormatoNoReconocido ==
    ArchivoSinFirma =>
        /\ pc \in {"build_dataset()", "error"}
        /\ pc = "error" =>
              error \in {"detect_load: RuntimeError", "detect_load: JSONDecodeError"}
        /\ idx = 0 /\ cargados = <<>> /\ enriquecidos = <<>> /\ stats = <<>>

\* the first record lacks TH and the second one carries the whole signature
C20_Witness ==
    /\ via = "path"
    /\ pc = "error"
    /\ error = "detect_load: RuntimeError"
    /\ Len(data) = 2
    /\ data[1].claves = SIGNATURES \ {"TH"}
    /\ data[2].claves = SIGNATURES
    /\ ~data[1].malformado /\ ~data[2].malformado

\* ------------------------------------------------ loaders/cache.py
\* get_summary under functools.lru_cache.  A source is the pair of the call's
\* arguments; the data served by the API carries a version that changes
\* between calls; a result is the record of where the data came from and in
\* which version, the origin being "None" when the call returns None.
VARIABLES cache, respaldo, remoto, llamadas, previa, ultima

varsCache == <<cache, respaldo, remoto, llamadas, previa, ultima>>

MaxLlamadasCache == 3

MaxVersion == 2

_CACHE_SIZE == 8

Api2025 == <<"api", "https://api/2025">>

Fuentes ==
    { Api2025, <<"api", "https://api/2020">>, <<"json", "a.json">>,
      <<"json", "b.json">>, <<"xml", "a.xml">> }

\* the value of a call that returns None
Ninguno == [origen |-> "None", version |-> 0]

\* '2025' in str(source_location)
Contiene2025(source_location) == source_location = "https://api/2025"

EnCache(c, clave) == \E i \in 1..Len(c) : c[i][1] = clave

ValorEnCache(c, clave) == c[CHOOSE i \in 1..Len(c) : c[i][1] = clave][2]

\* a hit moves the entry to the most recently used end
Usar(c, clave) ==
    Append(SelectSeq(c, LAMBDA e : e[1] # clave), <<clave, ValorEnCache(c, clave)>>)

\* the result of a miss is stored, the least recently used entry leaving a
\* full cache
Guardar(c, clave, valor) ==
    Append(IF Len(c) >= _CACHE_SIZE THEN Tail(c) ELSE c, <<clave, valor>>)

\* the body of get_summary: the cache it leaves behind (cache_clear for the
\* 2025 API), the backup file it leaves behind, and what it returns
\* (None, ValueError when it raises, or the result of build_dataset)
CuerpoGetSummary(clave, api_ok, escribe_ok, pipeline_ok) ==
    LET source_type == clave[1]
        es2025 == source_type = "api" /\ Contiene2025(clave[2])
        limpia == IF es2025 THEN <<>> ELSE cache
        resp == IF es2025 /\ api_ok /\ escribe_ok THEN remoto ELSE respaldo
        raw_data ==
           IF source_type = "api"
           THEN IF api_ok THEN [origen |-> "api", version |-> remoto]
                ELSE IF es2025 /\ respaldo # 0
                     THEN [origen |-> "respaldo", version |-> respaldo]
                     ELSE Ninguno
           ELSE IF source_type = "json" THEN [origen |-> clave[2], version |-> 0]
           ELSE [origen |-> "ValueError", version |-> 0]
        resultado ==
           IF raw_data.origen \in {"None", "ValueError"} THEN raw_data
           ELSE IF pipeline_ok THEN raw_data ELSE Ninguno
    IN [cache |-> limpia, respaldo |-> resp, resultado |-> resultado]

CacheIdle ==
    /\ cache = <<>> /\ respaldo = 0 /\ remoto = 0 /\ llamadas = 0
    /\ previa = <<>> /\ ultima = <<>>

InitCache ==
    /\ pc = "get_summary()"
    /\ cache = <<>>
    /\ respaldo = 0
    /\ remoto = 1
    /\ llamadas = 0
    /\ previa = <<>>
    /\ ultima = <<>>

\* one call get_summary(source_type, source_location) through the lru_cache
\* wrapper: a hit returns the stored value without running the body; a miss
\* runs the body and stores what it returns (nothing when it raises)
LlamarGetSummary ==
    /\ pc = "get_summary()"
    /\ llamadas < MaxLlamadasCache
    /\ llamadas' = llamadas + 1
    /\ previa' = ultima
    /\ \E clave \in Fuentes :
          IF EnCache(cache, clave)
          THEN /\ cache' = Usar(cache, clave)
               /\ ultima' = [clave |-> clave, cuerpo |-> FALSE,
                              resultado |-> ValorEnCache(cache, clave)]
               /\ UNCHANGED respaldo
          ELSE \E api_ok, escribe_ok, pipeline_ok \in BOOLEAN :
                  LET r == CuerpoGetSummary(clave, api_ok, escribe_ok, pipeline_ok)
                  IN /\ cache' = IF r.resultado.origen = "ValueError" THEN r.cache
                                  ELSE Guardar(r.cache, clave, r.resultado)
                     /\ respaldo' = r.respaldo
                     /\ ultima' = [clave |-> clave, cuerpo |-> TRUE,
                                    resultado |-> r.resultado]
    /\ UNCHANGED <<pc, remoto>>

\* the API serves new data
CambiaRemoto ==
    /\ pc = "get_summary()"
    /\ remoto < MaxVersion
    /\ remoto' = remoto + 1
    /\ UNCHANGED <<pc, cache, respaldo, llamadas, previa, ultima>>

\* C25: every call of get_summary with source_type 'api' and a location
\* containing '2025' performs a new API load and a new pipeline run: the
\* result of an earlier call is never returned from the LRU cache for such
\* a source.
C25_Api2025SinCache ==
    (ultima # <<>> /\ ultima.clave = Api2025) => ultima.cuerpo

\* C26: a call of get_summary that ends without a result (it returns None)
\* is not remembered: the next call with the same arguments runs the load
\* and the pipeline again.
C26_FalloNoRecordado ==
    (previa # <<>> /\ previa.resultado = Ninguno /\ ultima.clave = previa.clave)
        => ultima.cuerpo

\* ------------------------------- municipal_concejales.py: all the lists
\* enrich_municipal_concejales on one municipality of the dictionary:
\* council_seats is a dict party -> seats, municipal_council_lists a list of
\* lists [Partido, Votos]; an output list carries the place (id) of the
\* input list it was made from.
VARIABLES council_seats, municipal_council_lists, listas_procesadas

varsListasMuni == <<council_seats, municipal_council_lists, listas_procesadas>>

PartidosListas == {"PN", "FA", ""}

ListasMunicipales ==
    SeqsUpTo([Partido : PartidosListas, Votos : 0..MaxTot], 2)

\* dicts of seats per party over two parties, a party holding no seat included
EscanosPorPartido ==
    {<<>>}
    \cup { << <<p, s>> >> : p \in {"PN", "FA"}, s \in 0..MaxTot }
    \cup { << <<"PN", s>>, <<"FA", t>> >> : s, t \in 0..MaxTot }
    \cup { << <<"FA", s>>, <<"PN", t>> >> : s, t \in 0..MaxTot }

\* lists_grouped_by_party[party]: the places of the party's lists, in order
ListasDelPartido(listas, party) ==
    SelectSeq([i \in 1..Len(listas) |-> i], LAMBDA i : listas[i].Partido = party)

\* _calculate_pure_dhondt(party_lists, seats_for_party) on the lists at idxs
AnotarDhondt(listas, idxs, k) ==
    LET r == CalculatePureDhondt([j \in 1..Len(idxs) |-> listas[idxs[j]].Votos], k)
    IN [j \in 1..Len(idxs) |->
          [id |-> idxs[j], Partido |-> listas[idxs[j]].Partido,
           Votos |-> listas[idxs[j]].Votos,
           Concejales_Asignados |-> r.asignados[j], Resto_Dhondt |-> r.resto[j]]]

\* l['Concejales_Asignados'] = 0; l['Resto_Dhondt'] = 0.0 on the lists at idxs
AnotarCero(listas, idxs) ==
    [j \in 1..Len(idxs) |->
        [id |-> idxs[j], Partido |-> listas[idxs[j]].Partido,
         Votos |-> listas[idxs[j]].Votos,
         Concejales_Asignados |-> 0, Resto_Dhondt |-> <<0, 1>>]]

\* lines 141-142: parties_in_lists - set(parties_with_seats); a list without
\* party is in no group
PartidosSinEscanos(seats, listas) ==
    ({ listas[i].Partido : i \in 1..Len(listas) } \ {""}) \ Claves(seats)

\* lines 114-160 for one municipality: the lists that replace
\* municipal_council_lists; the parties without seats are walked in the
\* order of a set, which is any order
EnrichMunicipalConcejales(seats, listas) ==
    IF seats # <<>> /\ listas # <<>>
    THEN LET conEscanos ==
                Aplanar([p \in 1..Len(seats) |->
                   IF seats[p][2] > 0 /\ seats[p][1] # ""
                      /\ ListasDelPartido(listas, seats[p][1]) # <<>>
                   THEN AnotarDhondt(listas, ListasDelPartido(listas, seats[p][1]),
                                     seats[p][2])
                   ELSE <<>>])
             sin == PartidosSinEscanos(seats, listas)
             ordenes == { f \in [1..Cardinality(sin) -> sin] :
                            \A i, j \in 1..Cardinality(sin) : f[i] = f[j] => i = j }
         IN { conEscanos \o
                Aplanar([j \in 1..Cardinality(sin) |->
                           AnotarCero(listas, ListasDelPartido(listas, f[j]))]) :
              f \in ordenes }
    ELSE { AnotarCero(listas, [i \in 1..Len(listas) |-> i]) }

ListasMuniIdle ==
    council_seats = <<>> /\ municipal_council_lists = <<>> /\ listas_procesadas = <<>>

InitListasMuni ==
    /\ pc = "enrich_municipal_concejales"
    /\ council_seats \in EscanosPorPartido
    /\ municipal_council_lists \in ListasMunicipales
    /\ listas_procesadas = <<>>

\* the call enrich_municipal_concejales(election_data)
LlamarEnrichMunicipalConcejales ==
    /\ pc = "enrich_municipal_concejales"
    /\ listas_procesadas' \in
          EnrichMunicipalConcejales(council_seats, municipal_council_lists)
    /\ pc' = "enrich_municipal_concejales:retorno"
    /\ UNCHANGED <<council_seats, municipal_council_lists>>

\* C28: the municipal list-level enrichment keeps every list: every list of
\* the input municipal_council_lists appears exactly once in the output,
\* annotated with Concejales_Asignados and Resto_Dhondt, the lists of
\* parties with zero seats in council_seats and of parties absent from
\* council_seats included.
C28_TodasLasListas ==
    pc = "enrich_municipal_concejales:retorno" =>
        \A i \in 1..Len(municipal_council_lists) :
           /\ municipal_council_lists[i].Partido # "" =>
                 Cardinality({ j \in 1..Len(listas_procesadas) :
                                 listas_procesadas[j].id = i }) = 1
           /\ \A j \in 1..Len(listas_procesadas) :
                 listas_procesadas[j].id = i =>
                    /\ listas_procesadas[j].Votos = municipal_council_lists[i].Votos
                    /\ listas_procesadas[j].Concejales_Asignados >= 0

vars == <<pc, varsEdiles, varsConcejales, varsCociente, varsPipeline, varsTexto, varsClean, varsAggregate, varsCarga, varsParalelo, varsCache, varsListasMuni>>

Init ==
    /\ ListasMuniIdle
    /\ CacheIdle
    /\ ParaleloIdle
    /\ PipelineIdle
    /\ TextoIdle
    /\ CleanIdle
    /\ AggregateIdle
    /\ CargaIdle
    /\ \/ InitEdiles /\ ConcejalesIdle /\ CocienteIdle
       \/ InitConcejales /\ EdilesIdle /\ CocienteIdle
       \/ InitCociente /\ EdilesIdle /\ ConcejalesIdle

Next ==
    \/ LlamarEdilesPorLema /\ UNCHANGED <<varsConcejales, varsCociente, varsPipeline, varsTexto, varsClean, varsAggregate, varsCarga, varsParalelo, varsCache, varsListasMuni>>
    \/ DistribuirDhondtPaso /\ UNCHANGED <<varsConcejales, varsCociente, varsPipeline, varsTexto, varsClean, varsAggregate, varsCarga, varsParalelo, varsCache, varsListasMuni>>
    \/ LlamarCalculatePureDhondt /\ UNCHANGED <<varsEdiles, varsCociente, varsPipeline, varsTexto, varsClean, varsAggregate, varsCarga, varsParalelo, varsCache, varsListasMuni>>
    \/ LlamarEnrichListasData /\ UNCHANGED <<varsEdiles, varsConcejales, varsPipeline, varsTexto, varsClean, varsAggregate, varsCarga, varsParalelo, varsCache, varsListasMuni>>
    \/ LlamarTransformFrontend /\ UNCHANGED <<varsEdiles, varsConcejales, varsPipeline, varsTexto, varsClean, varsAggregate, varsCarga, varsParalelo, varsCache, varsListasMuni>>

Spec == Init /\ [][Next]_vars

\* build_dataset on one department record
InitP ==
    /\ ListasMuniIdle
    /\ CacheIdle
    /\ ParaleloIdle
    /\ InitPipeline
    /\ EdilesIdle /\ ConcejalesIdle /\ CocienteIdle /\ TextoIdle /\ CleanIdle
    /\ AggregateIdle
    /\ CargaIdle

NextP ==
    \/ ConstruirElectionSummary /\ UNCHANGED <<varsEdiles, varsConcejales, varsCociente, varsTexto, varsClean, varsAggregate, varsCarga, varsParalelo, varsCache, varsListasMuni>>
    \/ Clean /\ UNCHANGED <<varsEdiles, varsConcejales, varsCociente, varsTexto, varsClean, varsAggregate, varsCarga, varsParalelo, varsCache, varsListasMuni>>
    \/ Enrich /\ UNCHANGED <<varsEdiles, varsConcejales, varsCociente, varsTexto, varsClean, varsAggregate, varsCarga, varsParalelo, varsCache, varsListasMuni>>
    \/ AggregatePipeline /\ UNCHANGED <<varsEdiles, varsConcejales, varsCociente, varsTexto, varsClean, varsCarga, varsParalelo, varsCache, varsListasMuni>>

SpecPipeline == InitP /\ [][NextP]_vars

\* simplify called on a string and again on its result
InitT ==
    /\ ListasMuniIdle
    /\ CacheIdle
    /\ ParaleloIdle
    /\ InitTexto
    /\ EdilesIdle /\ ConcejalesIdle /\ CocienteIdle /\ PipelineIdle /\ CleanIdle
    /\ AggregateIdle
    /\ CargaIdle

NextT ==
    \/ LlamarSimplify /\ UNCHANGED <<varsEdiles, varsConcejales, varsCociente, varsPipeline, varsClean, varsAggregate, varsCarga, varsParalelo, varsCache, varsListasMuni>>

SpecTexto == InitT /\ [][NextT]_vars

\* clean called on a one-department summary and again on its result
InitC ==
    /\ ListasMuniIdle
    /\ CacheIdle
    /\ ParaleloIdle
    /\ InitClean
    /\ EdilesIdle /\ ConcejalesIdle /\ CocienteIdle /\ PipelineIdle /\ TextoIdle
    /\ AggregateIdle
    /\ CargaIdle

NextC ==
    \/ LlamarClean /\ UNCHANGED <<varsEdiles, varsConcejales, varsCociente, varsPipeline, varsTexto, varsAggregate, varsCarga, varsParalelo, varsCache, varsListasMuni>>

SpecClean == InitC /\ [][NextC]_vars

\* aggregate called on an enriched summary of up to MaxDeptos departments
InitA ==
    /\ ListasMuniIdle
    /\ CacheIdle
    /\ ParaleloIdle
    /\ InitAggregate
    /\ EdilesIdle /\ ConcejalesIdle /\ CocienteIdle /\ PipelineIdle /\ TextoIdle
    /\ CleanIdle
    /\ CargaIdle

NextA ==
    \/ LlamarAggregate /\ UNCHANGED <<varsEdiles, varsConcejales, varsCociente, varsPipeline, varsTexto, varsClean, varsCarga, varsParalelo, varsCache, varsListasMuni>>

SpecAggregate == InitA /\ [][NextA]_vars

\* build_dataset from a file or from raw records
InitL ==
    /\ ListasMuniIdle
    /\ CacheIdle
    /\ ParaleloIdle
    /\ InitCarga
    /\ EdilesIdle /\ ConcejalesIdle /\ CocienteIdle /\ PipelineIdle /\ TextoIdle
    /\ CleanIdle
    /\ AggregateIdle

NextL ==
    \/ DetectLoad /\ UNCHANGED <<varsEdiles, varsConcejales, varsCociente, varsPipeline, varsTexto, varsClean, varsParalelo, varsCache, varsListasMuni>>
    \/ LoadDepartamento /\ UNCHANGED <<varsEdiles, varsConcejales, varsCociente, varsPipeline, varsTexto, varsClean, varsParalelo, varsCache, varsListasMuni>>
    \/ LoadRetorno /\ UNCHANGED <<varsEdiles, varsConcejales, varsCociente, varsPipeline, varsTexto, varsClean, varsParalelo, varsCache, varsListasMuni>>
    \/ UsarRawData /\ UNCHANGED <<varsEdiles, varsConcejales, varsCociente, varsPipeline, varsTexto, varsClean, varsParalelo, varsCache, varsListasMuni>>
    \/ LimpiarEnriquecerAgregar /\ UNCHANGED <<varsEdiles, varsConcejales, varsCociente, varsPipeline, varsTexto, varsClean, varsParalelo, varsCache, varsListasMuni>>

SpecCarga == InitL /\ [][NextL]_vars

\* enrich and aggregate with the order of the departments left open
InitU ==
    /\ ListasMuniIdle
    /\ CacheIdle
    /\ InitParalelo
    /\ EdilesIdle /\ ConcejalesIdle /\ CocienteIdle /\ PipelineIdle /\ TextoIdle
    /\ CleanIdle
    /\ AggregateIdle
    /\ CargaIdle

NextU ==
    \/ EnriquecerUnidad /\ UNCHANGED <<varsEdiles, varsConcejales, varsCociente, varsPipeline, varsTexto, varsClean, varsAggregate, varsCarga, varsCache, varsListasMuni>>
    \/ AggregatePermutado /\ UNCHANGED <<varsEdiles, varsConcejales, varsCociente, varsPipeline, varsTexto, varsClean, varsAggregate, varsCarga, varsCache, varsListasMuni>>

SpecParalelo == InitU /\ [][NextU]_vars

\* calls of get_summary
InitG ==
    /\ ListasMuniIdle
    /\ InitCache
    /\ EdilesIdle /\ ConcejalesIdle /\ CocienteIdle /\ PipelineIdle /\ TextoIdle
    /\ CleanIdle
    /\ AggregateIdle
    /\ CargaIdle
    /\ ParaleloIdle

NextG ==
    \/ LlamarGetSummary /\ UNCHANGED <<varsEdiles, varsConcejales, varsCociente, varsPipeline, varsTexto, varsClean, varsAggregate, varsCarga, varsParalelo, varsListasMuni>>
    \/ CambiaRemoto /\ UNCHANGED <<varsEdiles, varsConcejales, varsCociente, varsPipeline, varsTexto, varsClean, varsAggregate, varsCarga, varsParalelo, varsListasMuni>>

SpecCache == InitG /\ [][NextG]_vars

\* enrich_municipal_concejales on one municipality
InitM ==
    /\ InitListasMuni
    /\ EdilesIdle /\ ConcejalesIdle /\ CocienteIdle /\ PipelineIdle /\ TextoIdle
    /\ CleanIdle
    /\ AggregateIdle
    /\ CargaIdle
    /\ ParaleloIdle
    /\ CacheIdle

NextM ==
    \/ LlamarEnrichMunicipalConcejales /\ UNCHANGED <<varsEdiles, varsConcejales, varsCociente, varsPipeline, varsTexto, varsClean, varsAggregate, varsCarga, varsParalelo, varsCache>>

SpecListasMuni == InitM /\ [][NextM]_vars
====
